---- MODULE Spec2Model ----
(***************************************************************************)
(* Credit ledger and payment allocation of AutoAccessoriesPOS.             *)
(*                                                                         *)
(* The store is the SQLite file behind core/database.py.  Its four ledger  *)
(* relations are modelled: customers (current_balance), sales (invoices),  *)
(* customer_payments and sale_payments.  Money is a Python float in the    *)
(* code; here it is an integer number of sub-units, Sub of them to 0.01.   *)
(* Amounts of money (grand totals, requested amounts) are whole numbers of *)
(* 0.01, that is multiples of Sub; round(x, 2) rounds to such a multiple.  *)
(*                                                                         *)
(* The specifications share the state:                                    *)
(*   Spec      every request handler runs to completion (the handlers are  *)
(*             "async def" without a suspension point, so one server       *)
(*             process runs them one after the other);                     *)
(*   SpecConc  two server processes share the database file: every SELECT *)
(*             issued before the first UPDATE/INSERT of a unit of work is  *)
(*             its own autocommit read (sqlite3 opens the transaction only *)
(*             before the first data-modifying statement), and the part    *)
(*             from the first write to the commit holds SQLite's single    *)
(*             writer lock and is one step;                                *)
(*   SpecStore one unit of work of core/database.py step by step: the      *)
(*             connection is acquired, the statements run one at a time    *)
(*             and may fail, the scope commits or rolls back;              *)
(*   SpecSales a new installation in which sales are created and customers *)
(*             deleted.                                                    *)
(***************************************************************************)
EXTENDS Integers, Sequences, FiniteSets, TLC

\* ---------------------------------------------------------------- bounds
Sub == 2            \* sub-units per 0.01 of currency
MaxAmount == 4      \* largest requested amount, in units of 0.01
MaxPayments == 2    \* payments accepted in one behaviour
MaxIds == 2         \* longest sale_ids list of a request

Customers == {1, 2}             \* ids of the customers rows
ReqCustomers == {1, 3}          \* ids a request may name (3 has no row)
SaleIds == {1, 2, 3}            \* ids of the sales rows
ReqSaleIds == {1, 2, 3, 4}      \* ids a request may name (4 has no row)
Statuses == {"paid", "pending", "partial", "cancelled"}

VARIABLES
  customers,            \* customers.current_balance, by customer id
  sales,                \* sales rows, by sale id
  customer_payments,    \* customer_payments rows; the row id is the index
  sale_payments,        \* sale_payments rows (allocation audit lines)
  last,                 \* Spec: the request served last and its response
  workers,              \* SpecConc: the request each server process is in
  unit                  \* SpecStore: the pool and the get_cursor scope

vars == <<customers, sales, customer_payments, sale_payments, last,
          workers, unit>>

\* ------------------------------------------------------------ arithmetic
Min(a, b) == IF a <= b THEN a ELSE b
Abs(a) == IF a < 0 THEN 0 - a ELSE a

RECURSIVE SumSeq(_)
SumSeq(s) == IF s = <<>> THEN 0 ELSE Head(s) + SumSeq(Tail(s))

RECURSIVE SumOver(_, _)
SumOver(S, f) ==
  IF S = {} THEN 0
  ELSE LET x == CHOOSE y \in S : TRUE IN f[x] + SumOver(S \ {x}, f)

\* round(x, 2): the nearest multiple of Sub, and of two equally near ones
\* the even one (Python rounds half to even).
Round2(x) ==
  LET r == x % Sub
      lo == x - r
  IN IF 2 * r < Sub THEN lo
     ELSE IF 2 * r > Sub THEN lo + Sub
     ELSE IF (lo \div Sub) % 2 = 0 THEN lo ELSE lo + Sub

\* sale.get('balance_due', 0) or sale.get('grand_total', 0): a stored 0 is
\* falsy, so the invoice counts with its grand_total.
SaleBalance(sale) ==
  IF sale.balance_due # 0 THEN sale.balance_due ELSE sale.grand_total

\* ------------------------------------------------------------ the store
\* The candidate invoices of a customer: payment_status IN ('pending',
\* 'partial').
Outstanding(sl, customer_id) ==
  {id \in DOMAIN sl : sl[id].customer_id = customer_id
                      /\ sl[id].payment_status \in {"pending", "partial"}}

\* SELECT SUM(balance_due) ... WHERE payment_status IN ('pending','partial')
OutstandingTotal(sl, customer_id) ==
  SumOver(Outstanding(sl, customer_id),
          [id \in DOMAIN sl |-> sl[id].balance_due])

\* ORDER BY created_at DESC.
OrderedRowsNewestFirst(sl, ids, tieById) ==
  {seq \in [1..Cardinality(ids) -> ids] :
     /\ \A i, j \in 1..Cardinality(ids) : i # j => seq[i] # seq[j]
     /\ \A i, j \in 1..Cardinality(ids) : i < j =>
          \/ sl[seq[i]].created_at > sl[seq[j]].created_at
          \/ /\ sl[seq[i]].created_at = sl[seq[j]].created_at
             /\ (tieById => seq[i] < seq[j])}

\* All orders in which a SELECT may return the rows `ids': ascending
\* created_at, and ascending id among equal created_at only when the query
\* says so (ORDER BY created_at ASC, id ASC); otherwise rows of equal
\* created_at come in an order SQL leaves open.
OrderedRows(sl, ids, tieById) ==
  {seq \in [1..Cardinality(ids) -> ids] :
     /\ \A i, j \in 1..Cardinality(ids) : i # j => seq[i] # seq[j]
     /\ \A i, j \in 1..Cardinality(ids) : i < j =>
          \/ sl[seq[i]].created_at < sl[seq[j]].created_at
          \/ /\ sl[seq[i]].created_at = sl[seq[j]].created_at
             /\ (tieById => seq[i] < seq[j])}

\* The rows of a result set, as the dicts the handlers build from them.
Fetch(sl, seq) ==
  [i \in 1..Len(seq) |->
     [id |-> seq[i], grand_total |-> sl[seq[i]].grand_total,
      balance_due |-> sl[seq[i]].balance_due,
      payment_status |-> sl[seq[i]].payment_status]]

\* The ids of a sequence of rows or of sale_ids.
Range(seq) == {seq[i] : i \in 1..Len(seq)}

\* ids in ascending order (sales_list.sort(key=lambda x: x['id']), and the
\* order in which SQLite walks "id IN (...)" on the primary key).
RECURSIVE SortedIds(_)
SortedIds(S) ==
  IF S = {} THEN <<>>
  ELSE LET m == CHOOSE x \in S : \A y \in S : x <= y
       IN <<m>> \o SortedIds(S \ {m})

\* ------------------------------------------------- the allocation loops
\* The loop without "remaining_payment -= amount_to_apply".
RECURSIVE WaterfallRoundedNoDecrement(_, _)
WaterfallRoundedNoDecrement(rows, remaining_payment) ==
  IF rows = <<>> \/ remaining_payment <= 0 THEN <<>>
  ELSE LET sale == Head(rows)
           sale_balance == SaleBalance(sale)
           amount_to_apply == Min(remaining_payment, sale_balance)
           new_balance == Round2(sale_balance - amount_to_apply)
           new_status == IF new_balance <= 0 THEN "paid" ELSE "partial"
       IN <<[sale_id |-> sale.id, amount_applied |-> amount_to_apply,
             new_balance |-> new_balance, new_status |-> new_status]>>
          \o WaterfallRoundedNoDecrement(Tail(rows), remaining_payment)

\* customer_payments.py: balances are rounded after the subtraction.
RECURSIVE WaterfallRounded(_, _)
WaterfallRounded(rows, remaining_payment) ==
  IF rows = <<>> \/ remaining_payment <= 0 THEN <<>>
  ELSE LET sale == Head(rows)
           sale_balance == SaleBalance(sale)
           amount_to_apply == Min(remaining_payment, sale_balance)
           new_balance == Round2(sale_balance - amount_to_apply)
           new_status == IF new_balance <= 0 THEN "paid" ELSE "partial"
       IN <<[sale_id |-> sale.id, amount_applied |-> amount_to_apply,
             new_balance |-> new_balance, new_status |-> new_status]>>
          \o WaterfallRounded(Tail(rows),
                              remaining_payment - amount_to_apply)

\* The loop without the min(): everything that is left goes to the invoice.
RECURSIVE WaterfallOverpay(_, _)
WaterfallOverpay(rows, remaining_payment) ==
  IF rows = <<>> \/ remaining_payment <= 0 THEN <<>>
  ELSE LET sale == Head(rows)
           current_balance == SaleBalance(sale)
           amount_to_apply == remaining_payment
           new_balance == current_balance - amount_to_apply
           new_status == IF new_balance <= 0 THEN "paid" ELSE "partial"
       IN <<[sale_id |-> sale.id, amount_applied |-> amount_to_apply,
             new_balance |-> new_balance, new_status |-> new_status]>>
          \o WaterfallOverpay(Tail(rows),
                              remaining_payment - amount_to_apply)

\* credit_management.py: the same loop without the rounding.
RECURSIVE Waterfall(_, _)
Waterfall(rows, remaining_payment) ==
  IF rows = <<>> \/ remaining_payment <= 0 THEN <<>>
  ELSE LET sale == Head(rows)
           current_balance == SaleBalance(sale)
           amount_to_apply == Min(remaining_payment, current_balance)
           new_balance == current_balance - amount_to_apply
           new_status == IF new_balance <= 0 THEN "paid" ELSE "partial"
       IN <<[sale_id |-> sale.id, amount_applied |-> amount_to_apply,
             new_balance |-> new_balance, new_status |-> new_status]>>
          \o Waterfall(Tail(rows), remaining_payment - amount_to_apply)

\* The targeted loop left after its first invoice.
SettleFirst(rows) ==
  [i \in 1..Min(1, Len(rows)) |->
     [sale_id |-> rows[i].id, amount_applied |-> SaleBalance(rows[i]),
      new_balance |-> 0, new_status |-> "paid"]]

\* customer_payments.py, targeted: every selected invoice is settled.
SettleAll(rows) ==
  [i \in 1..Len(rows) |->
     [sale_id |-> rows[i].id, amount_applied |-> SaleBalance(rows[i]),
      new_balance |-> 0, new_status |-> "paid"]]

\* paid_sales: the ids of the updates that ended 'paid', in update order.
RECURSIVE PaidSales(_)
PaidSales(updated_sales) ==
  IF updated_sales = <<>> THEN <<>>
  ELSE (IF Head(updated_sales).new_status = "paid"
        THEN <<Head(updated_sales).sale_id>> ELSE <<>>)
       \o PaidSales(Tail(updated_sales))

AmountsApplied(updated_sales) ==
  [i \in 1..Len(updated_sales) |-> updated_sales[i].amount_applied]

\* UPDATE sales SET balance_due = ?, payment_status = ? WHERE id = ?, once
\* for every entry of updated_sales, against the rows as they are now.
UpdateSales(sl, updated_sales) ==
  [id \in DOMAIN sl |->
     IF \E i \in 1..Len(updated_sales) : updated_sales[i].sale_id = id
     THEN LET u == updated_sales[CHOOSE i \in 1..Len(updated_sales) :
                                   updated_sales[i].sale_id = id]
          IN [sl[id] EXCEPT !.balance_due = u.new_balance,
                            !.payment_status = u.new_status]
     ELSE sl[id]]

\* UPDATE customers SET current_balance = ? WHERE id = ?
UpdateCustomer(cs, customer_id, new_balance) ==
  [id \in DOMAIN cs |-> IF id = customer_id THEN new_balance ELSE cs[id]]

\* INSERT OR REPLACE keyed by the customer: an earlier row of the customer
\* is overwritten.
InsertPaymentReplaces(cp, customer_id, amount, payment_type) ==
  LET row == [customer_id |-> customer_id, amount |-> amount,
              payment_type |-> payment_type]
  IN IF \E i \in 1..Len(cp) : cp[i].customer_id = customer_id
     THEN [i \in 1..Len(cp) |->
             IF cp[i].customer_id = customer_id THEN row ELSE cp[i]]
     ELSE Append(cp, row)

\* INSERT INTO customer_payments (...); cur.lastrowid is the new index.
InsertPayment(cp, customer_id, amount, payment_type) ==
  Append(cp, [customer_id |-> customer_id, amount |-> amount,
              payment_type |-> payment_type])

\* INSERT INTO sale_payments, one row for every entry of updated_sales.
InsertAllocations(sp, updated_sales, payment_id) ==
  sp \o [i \in 1..Len(updated_sales) |->
           [sale_id |-> updated_sales[i].sale_id,
            customer_payment_id |-> payment_id,
            amount |-> updated_sales[i].amount_applied]]

\* ------------------------------------------------ what a handler decides
\* The outcome of a handler body before anything is written: the HTTP
\* status, and for status 200 the writes it issues and the values it
\* returns.  payment_amount is the amount of the customer_payments row.
Rejected(status, detail) ==
  [status |-> status, detail |-> detail, updated_sales |-> <<>>,
   new_balance |-> 0, paid_sales |-> <<>>, payment_amount |-> 0,
   payment_type |-> "", allocations |-> FALSE]

Accepted(updated_sales, new_balance, paid_sales, payment_amount, payment_type, allocations) ==
  [status |-> 200, detail |-> "", updated_sales |-> updated_sales,
   new_balance |-> new_balance, paid_sales |-> paid_sales,
   payment_amount |-> payment_amount, payment_type |-> payment_type,
   allocations |-> allocations]

\* General mode with what is left of the payment after the loop, which is
\* nothing, taken off the balance instead of the payment.
GeneralPaymentKeepsBalance(current_balance, rows, payment_amount) ==
  IF payment_amount > current_balance
  THEN Rejected(400, "Payment amount exceeds outstanding balance")
  ELSE LET updated_sales == WaterfallRounded(rows, payment_amount)
           remaining_payment ==
             payment_amount - SumSeq(AmountsApplied(updated_sales))
           new_balance == Round2(current_balance - remaining_payment)
       IN Accepted(updated_sales,
                   IF new_balance < 0 THEN 0 ELSE new_balance,
                   PaidSales(updated_sales), payment_amount,
                   "credit_payment", TRUE)

\* customer_payments.py, general mode.  current_balance is the value read
\* from the customers row, rows the pending/partial invoices as fetched.
GeneralPayment(current_balance, rows, payment_amount) ==
  IF payment_amount > current_balance
  THEN Rejected(400, "Payment amount exceeds outstanding balance")
  ELSE LET updated_sales == WaterfallRounded(rows, payment_amount)
           new_balance == Round2(current_balance - payment_amount)
       IN Accepted(updated_sales,
                   IF new_balance < 0 THEN 0 ELSE new_balance,
                   PaidSales(updated_sales), payment_amount,
                   "credit_payment", TRUE)

\* customer_payments.py, targeted mode.  rows are the rows of the query
\* "id IN (sale_ids) AND customer_id = ?".
SpecificSalesPayment(current_balance, rows, sale_ids) ==
  LET total_payment == SumSeq([i \in 1..Len(rows) |-> SaleBalance(rows[i])])
      new_balance == current_balance - total_payment
  IN IF Len(rows) # Len(sale_ids)
     THEN Rejected(400, "One or more sales not found or do not belong to this customer")
     ELSE IF \E i \in 1..Len(rows) : rows[i].payment_status = "paid"
     THEN Rejected(400, "Sale is already paid")
     ELSE IF total_payment > current_balance
     THEN Rejected(400, "Total payment amount exceeds outstanding balance")
     ELSE Accepted(SettleAll(rows),
                   IF new_balance < 0 THEN 0 ELSE new_balance,
                   sale_ids, total_payment, "specific_sales_payment", TRUE)

\* General mode without the check against the customer's balance.
GeneralCreditPaymentUnchecked(customer_current_balance, rows, payment_amount) ==
  LET updated_sales == Waterfall(rows, payment_amount)
  IN Accepted(updated_sales, customer_current_balance - payment_amount,
              PaidSales(updated_sales), payment_amount,
              "credit_payment", FALSE)

\* credit_management.py, general mode.
GeneralCreditPayment(customer_current_balance, rows, payment_amount) ==
  IF payment_amount > customer_current_balance
  THEN Rejected(400, "Payment amount exceeds customer's outstanding balance")
  ELSE LET updated_sales == Waterfall(rows, payment_amount)
       IN Accepted(updated_sales,
                   customer_current_balance - payment_amount,
                   PaidSales(updated_sales), payment_amount,
                   "credit_payment", FALSE)

\* credit_management.py, targeted mode.  rows are sorted by id.
PaymentForSpecificSales(customer_current_balance, rows, sale_ids, payment_amount) ==
  LET total_balance_due ==
        SumSeq([i \in 1..Len(rows) |-> SaleBalance(rows[i])])
      updated_sales == Waterfall(rows, payment_amount)
      new_customer_balance == customer_current_balance - payment_amount
  IN IF Len(rows) # Len(sale_ids)
     THEN Rejected(400, "One or more sales not found or do not belong to this customer")
     ELSE IF payment_amount > total_balance_due
     THEN Rejected(400, "Payment amount exceeds total balance due")
     ELSE Accepted(updated_sales,
                   IF new_customer_balance < 0 THEN 0
                   ELSE new_customer_balance,
                   PaidSales(updated_sales), payment_amount,
                   "credit_payment", FALSE)

\* The query without "AND customer_id = ?".
SalesOfAnyCustomer(sl, sale_ids, customer_id) ==
  {id \in DOMAIN sl : id \in Range(sale_ids)}

\* SELECT ... FROM sales WHERE id IN (sale_ids) AND customer_id = ?
SalesOf(sl, sale_ids, customer_id) ==
  {id \in DOMAIN sl : id \in Range(sale_ids)
                      /\ sl[id].customer_id = customer_id}

\* --------------------------------------------------------- initial state
\* The ledger rows the store holds when the server starts.  An invoice is
\* pending with its balance (or with the balance_due the INSERTs of
\* sales.py and pos.py leave at the column default 0), partly paid, paid
\* or cancelled, and 0 <= balance_due <= grand_total.  Sales 1 and 2 are
\* of customer 1, sale 3 of customer 2.  A customer's current_balance is
\* the sum of the balance_due of its pending and partial invoices.
InvoiceShapes ==
  { [grand_total |-> 2 * Sub, balance_due |-> 2 * Sub, payment_status |-> "pending"],
    [grand_total |-> Sub,     balance_due |-> Sub,     payment_status |-> "pending"],
    [grand_total |-> Sub,     balance_due |-> 0,       payment_status |-> "pending"],
    [grand_total |-> 2 * Sub, balance_due |-> 0,       payment_status |-> "pending"],
    [grand_total |-> 2 * Sub, balance_due |-> Sub,     payment_status |-> "partial"],
    [grand_total |-> Sub,     balance_due |-> 0,       payment_status |-> "paid"],
    [grand_total |-> Sub,     balance_due |-> Sub,     payment_status |-> "cancelled"] }

Invoice(customer_id, shape, created_at) ==
  [customer_id |-> customer_id, grand_total |-> shape.grand_total,
   balance_due |-> shape.balance_due,
   payment_status |-> shape.payment_status, created_at |-> created_at]

NoRequest ==
  [op |-> "none", customer_id |-> 0, amount |-> 0, sale_ids |-> <<>>,
   status |-> 0, detail |-> "", new_balance |-> 0, paid_sales |-> <<>>,
   updated_sales |-> <<>>, payment_id |-> 0, updated |-> 0,
   repeat |-> FALSE, before |-> 0]

Procs == {1, 2}     \* the server processes of SpecConc

IdleWorker ==
  [pc |-> "idle", op |-> "none", customer_id |-> 0, amount |-> 0,
   sale_ids |-> <<>>, exists |-> FALSE, current_balance |-> 0,
   plan |-> Rejected(0, ""), todo |-> <<>>, calculated |-> 0,
   payment_id |-> 0, updated |-> 0]

\* The adapter after construction: the pool is empty, no unit of work is
\* open.  delay is in units of 0.2 s.
IdleUnit ==
  [pc |-> "idle", units |-> 0, pool |-> 0, attempt |-> 0, delay |-> 0,
   error |-> "none", held |-> FALSE, cursor |-> "none",
   op |-> "none", customer_id |-> 0, amount |-> 0, sale_ids |-> <<>>,
   plan |-> Rejected(0, ""), todo |-> <<>>, applied |-> 0,
   before |-> <<>>, outcome |-> "none", raised |-> "none", status |-> 0]

InitLedger ==
  /\ \E s1, s2 \in InvoiceShapes : \E t1 \in {1, 2} :
       sales = (1 :> Invoice(1, s1, t1)) @@ (2 :> Invoice(1, s2, 1))
               @@ (3 :> Invoice(2, [grand_total |-> Sub, balance_due |-> Sub,
                                    payment_status |-> "pending"], 1))
  /\ customers = [c \in Customers |-> OutstandingTotal(sales, c)]
  /\ customer_payments = <<>>
  /\ sale_payments = <<>>
  /\ last = NoRequest
  /\ workers = [p \in Procs |-> IdleWorker]
  /\ unit = IdleUnit

\* ------------------------------------------------------------- requests
\* Requested amounts; 0 stands for a missing, zero or negative amount.
Amounts == {k * Sub : k \in 0..MaxAmount}
\* Requested sale_ids, ascending; one sale that is not an invoice of customer
\* 1 (sale 3 is of customer 2, sale 4 has no row) is enough to reject a list.
SaleIdLists ==
  {ids \in UNION {[1..n -> ReqSaleIds] : n \in 0..MaxIds} :
     /\ \A i, j \in 1..Len(ids) : i < j => ids[i] < ids[j]
     /\ Cardinality({i \in 1..Len(ids) : ids[i] \notin {1, 2}}) <= 1}

\* A request that was rejected left the store as it was, so whatever can
\* follow it can follow the state before it: behaviours are continued only
\* from the initial state and from accepted requests.
Serving == last.status \in {0, 200}

\* A reconciliation that corrected no customer left the store as it was as
\* well: payments are continued from the state before it.
Uncorrected == last.op = "reconcile_customer_balances" /\ last.updated = 0

\* A request naming a customer that has no row is answered 404 before its
\* sale_ids are read: such a request carries none.
Requested(customer_id, sale_ids) ==
  customer_id \in Customers \/ sale_ids = <<>>

\* The writes issued whatever the handler decided.
CommitAnyway(customer_id, plan) ==
  /\ sales' = UpdateSales(sales, plan.updated_sales)
  /\ customers' =
       IF customer_id \in DOMAIN customers
       THEN UpdateCustomer(customers, customer_id, plan.new_balance)
       ELSE customers
  /\ customer_payments' =
       InsertPayment(customer_payments, customer_id,
                     plan.payment_amount, plan.payment_type)
  /\ sale_payments' = sale_payments

\* The writes of an accepted request and the commit of get_cursor; a
\* rejected request raises inside the with-block before its first write.
Commit(customer_id, plan) ==
  IF plan.status = 200
  THEN /\ sales' = UpdateSales(sales, plan.updated_sales)
       /\ customers' = UpdateCustomer(customers, customer_id, plan.new_balance)
       /\ customer_payments' =
            InsertPayment(customer_payments, customer_id,
                          plan.payment_amount, plan.payment_type)
       /\ sale_payments' =
            IF plan.allocations
            THEN InsertAllocations(sale_payments, plan.updated_sales,
                                   Len(customer_payments) + 1)
            ELSE sale_payments
  ELSE UNCHANGED <<sales, customers, customer_payments, sale_payments>>

Respond(op, customer_id, amount, sale_ids, plan) ==
  last' = [op |-> op, customer_id |-> customer_id, amount |-> amount,
           sale_ids |-> sale_ids, status |-> plan.status,
           detail |-> plan.detail, new_balance |-> plan.new_balance,
           paid_sales |-> plan.paid_sales,
           updated_sales |-> plan.updated_sales,
           payment_id |-> IF plan.status = 200
                          THEN Len(customer_payments) + 1 ELSE 0,
           updated |-> 0, repeat |-> FALSE, before |-> 0]

\* The body of process_customer_payment, from what its SELECTs returned:
\* whether the customers row exists, its current_balance, and the sales
\* rows.
ProcessCustomerPaymentBody(exists, current_balance, rows, amount, sale_ids) ==
  IF ~exists THEN Rejected(404, "Customer not found")
  ELSE IF amount <= 0 THEN Rejected(400, "Invalid payment amount")
  ELSE IF sale_ids # <<>>
  THEN SpecificSalesPayment(current_balance, rows, sale_ids)
  ELSE GeneralPayment(current_balance, rows, amount)

\* The body of process_comprehensive_credit_payment.
ProcessComprehensiveCreditPaymentBody(exists, current_balance, rows, amount, sale_ids) ==
  IF ~exists THEN Rejected(404, "Customer not found")
  ELSE IF amount <= 0 THEN Rejected(400, "Valid payment amount is required")
  ELSE IF sale_ids # <<>>
  THEN PaymentForSpecificSales(current_balance, rows, sale_ids, amount)
  ELSE GeneralCreditPayment(current_balance, rows, amount)

\* The body of pay_customer_credit.  Its second statement, "UPDATE sales
\* ... ORDER BY created_at ASC", has an ORDER BY without a LIMIT, which
\* SQLite rejects when it prepares the statement; the exception rolls the
\* UPDATE of customers back and the request ends with status 500.
PayCustomerCreditBody(exists, current_balance, amount) ==
  IF amount <= 0 THEN Rejected(400, "Payment amount must be greater than 0")
  ELSE IF ~exists THEN Rejected(404, "Customer not found")
  ELSE IF amount > current_balance
  THEN Rejected(400, "Payment amount exceeds outstanding credit")
  ELSE Rejected(500, "ORDER BY without LIMIT on UPDATE")

PaymentOps == {"process_customer_payment",
               "process_comprehensive_credit_payment",
               "pay_customer_credit"}

\* The route of a payment request to its handler.
HandlerBody(op, exists, current_balance, rows, amount, sale_ids) ==
  CASE op = "process_customer_payment" ->
         ProcessCustomerPaymentBody(exists, current_balance, rows, amount,
                                    sale_ids)
    [] op = "process_comprehensive_credit_payment" ->
         ProcessComprehensiveCreditPaymentBody(exists, current_balance,
                                               rows, amount, sale_ids)
    [] op = "pay_customer_credit" ->
         PayCustomerCreditBody(exists, current_balance, amount)

\* SELECT id, current_balance FROM customers WHERE id = ?
CurrentBalance(cs, customer_id) ==
  IF customer_id \in DOMAIN cs THEN cs[customer_id] ELSE 0

\* The result sets the sales SELECT of a handler may return.  The general
\* query of customer_payments.py orders by created_at only, the one of
\* credit_management.py by created_at and id.
SelectSales(sl, op, customer_id, sale_ids) ==
  IF sale_ids # <<>>
  THEN {Fetch(sl, SortedIds(SalesOf(sl, sale_ids, customer_id)))}
  ELSE {Fetch(sl, seq) :
          seq \in OrderedRows(sl, Outstanding(sl, customer_id),
                              op = "process_comprehensive_credit_payment")}

\* One payment request served from its first statement to its commit.
ServePayment(op, customer_id, amount, sale_ids) ==
  /\ Serving
  /\ ~Uncorrected
  /\ Len(customer_payments) < MaxPayments
  /\ \E rows \in SelectSales(sales, op, customer_id, sale_ids) :
       LET plan == HandlerBody(op, customer_id \in DOMAIN customers,
                               CurrentBalance(customers, customer_id),
                               rows, amount, sale_ids)
       IN /\ Commit(customer_id, plan)
          /\ Respond(op, customer_id, amount, sale_ids, plan)
  /\ UNCHANGED <<workers, unit>>

\* POST /customer-payments/{customer_id}/payments
ProcessCustomerPayment(customer_id, amount, sale_ids) ==
  ServePayment("process_customer_payment", customer_id, amount, sale_ids)

\* POST /credit-management/process-credit-payment
ProcessComprehensiveCreditPayment(customer_id, amount, sale_ids) ==
  ServePayment("process_comprehensive_credit_payment", customer_id, amount,
               sale_ids)

\* POST /customers/{customer_id}/pay-credit
PayCustomerCredit(customer_id, amount) ==
  ServePayment("pay_customer_credit", customer_id, amount, <<>>)

\* abs(calculated_balance - current_balance) > 0.01
Tolerance == Sub

\* The comparison without the tolerance.
NeedsCorrectionAlways(calculated_balance, current_balance) ==
  calculated_balance # current_balance

NeedsCorrection(calculated_balance, current_balance) ==
  Abs(calculated_balance - current_balance) > Tolerance

\* Reconciliation whose UPDATE is given the stored balance instead of the
\* computed one.
ReconcileWritesStoredBalance ==
  /\ Serving
  /\ customers' = [c \in DOMAIN customers |->
                     IF NeedsCorrection(OutstandingTotal(sales, c), customers[c])
                     THEN customers[c]
                     ELSE customers[c]]
  /\ last' = [NoRequest EXCEPT
                !.op = "reconcile_customer_balances", !.status = 200,
                !.updated = Cardinality({c \in DOMAIN customers :
                  NeedsCorrection(OutstandingTotal(sales, c), customers[c])}),
                !.repeat = (last.op = "reconcile_customer_balances"),
                !.before = IF last.op = "reconcile_customer_balances"
                           THEN last.updated ELSE 0]
  /\ UNCHANGED <<sales, customer_payments, sale_payments, workers, unit>>

\* Reconciliation that also closes the invoices left without a balance.
ReconcileClosesInvoices ==
  /\ Serving
  /\ customers' = [c \in DOMAIN customers |->
                     IF NeedsCorrection(OutstandingTotal(sales, c), customers[c])
                     THEN OutstandingTotal(sales, c) ELSE customers[c]]
  /\ sales' = [id \in DOMAIN sales |->
                 IF sales[id].payment_status \in {"pending", "partial"}
                    /\ sales[id].balance_due = 0
                 THEN [sales[id] EXCEPT !.payment_status = "paid"]
                 ELSE sales[id]]
  /\ last' = [NoRequest EXCEPT
                !.op = "reconcile_customer_balances", !.status = 200,
                !.updated = Cardinality({c \in DOMAIN customers :
                  NeedsCorrection(OutstandingTotal(sales, c), customers[c])}),
                !.repeat = (last.op = "reconcile_customer_balances"),
                !.before = IF last.op = "reconcile_customer_balances"
                           THEN last.updated ELSE 0]
  /\ UNCHANGED <<customer_payments, sale_payments, workers, unit>>

\* POST /customer-payments/reconcile/customers
ReconcileCustomerBalances ==
  /\ Serving
  /\ customers' = [c \in DOMAIN customers |->
                     IF NeedsCorrection(OutstandingTotal(sales, c), customers[c])
                     THEN OutstandingTotal(sales, c) ELSE customers[c]]
  /\ last' = [NoRequest EXCEPT
                !.op = "reconcile_customer_balances", !.status = 200,
                !.updated = Cardinality({c \in DOMAIN customers :
                  NeedsCorrection(OutstandingTotal(sales, c), customers[c])}),
                !.repeat = (last.op = "reconcile_customer_balances"),
                !.before = IF last.op = "reconcile_customer_balances"
                           THEN last.updated ELSE 0]
  /\ UNCHANGED <<sales, customer_payments, sale_payments, workers, unit>>

\* ------------------------------------------- two processes, one database
\* Amounts of the concurrent scenario, in currency units.
Money(units) == units * 100 * Sub

ConcAmounts == {Money(10), Money(80), Money(90)}
ConcSaleIdLists == {<<>>, <<1>>}

\* Customer 1 owes 100, on one invoice or on two.
InitConc ==
  /\ \E two \in BOOLEAN :
       sales = (1 :> [customer_id |-> 1,
                      grand_total |-> IF two THEN Money(60) ELSE Money(100),
                      balance_due |-> IF two THEN Money(60) ELSE Money(100),
                      payment_status |-> "pending", created_at |-> 1])
            @@ (2 :> [customer_id |-> 1, grand_total |-> Money(40),
                      balance_due |-> IF two THEN Money(40) ELSE 0,
                      payment_status |-> IF two THEN "pending" ELSE "paid",
                      created_at |-> 2])
            @@ (3 :> [customer_id |-> 2, grand_total |-> Money(10),
                      balance_due |-> Money(10),
                      payment_status |-> "pending", created_at |-> 1])
  /\ customers = [c \in Customers |-> OutstandingTotal(sales, c)]
  /\ customer_payments = <<>>
  /\ sale_payments = <<>>
  /\ last = NoRequest
  /\ workers = [p \in Procs |-> IdleWorker]
  /\ unit = IdleUnit

\* get_cursor and the SELECT on customers; the SELECT is an autocommit
\* read of the committed store.
ReadCustomer(p, op, customer_id, amount, sale_ids) ==
  /\ workers[p].pc = "idle"
  /\ workers' = [workers EXCEPT ![p] =
       [IdleWorker EXCEPT
          !.pc = "select_sales", !.op = op, !.customer_id = customer_id,
          !.amount = amount, !.sale_ids = sale_ids,
          !.exists = customer_id \in DOMAIN customers,
          !.current_balance = CurrentBalance(customers, customer_id)]]
  /\ UNCHANGED <<customers, sales, customer_payments, sale_payments, last,
                 unit>>

\* The rest of the body up to its first write: the SELECT on sales,
\* another autocommit read, and the decision taken on what was read.
DecidePayment(p) ==
  /\ workers[p].pc = "select_sales"
  /\ \E rows \in SelectSales(sales, workers[p].op, workers[p].customer_id,
                            workers[p].sale_ids) :
       LET w == workers[p]
           plan == HandlerBody(w.op, w.exists, w.current_balance, rows,
                               w.amount, w.sale_ids)
       IN workers' = [workers EXCEPT ![p].plan = plan,
                        ![p].pc = IF plan.status = 200 THEN "write"
                                  ELSE "done"]
  /\ UNCHANGED <<customers, sales, customer_payments, sale_payments, last,
                 unit>>

\* From the first UPDATE to conn.commit(): the first write takes SQLite's
\* writer lock, which is held until the commit, so no other process reads
\* an intermediate state or writes in between.
WritePayment(p) ==
  /\ workers[p].pc = "write"
  /\ Commit(workers[p].customer_id, workers[p].plan)
  /\ workers' = [workers EXCEPT ![p].pc = "done",
                   ![p].payment_id = Len(customer_payments) + 1]
  /\ UNCHANGED <<last, unit>>

\* reconcile_customer_balances: SELECT id FROM customers.
ReconcileStart(p) ==
  /\ workers[p].pc = "idle"
  /\ workers' = [workers EXCEPT ![p] =
       [IdleWorker EXCEPT !.pc = "sum", !.op = "reconcile_customer_balances",
                          !.todo = SortedIds(DOMAIN customers)]]
  /\ UNCHANGED <<customers, sales, customer_payments, sale_payments, last,
                 unit>>

\* SELECT SUM(balance_due) for the next customer.
ReconcileSum(p) ==
  /\ workers[p].pc = "sum"
  /\ workers' = [workers EXCEPT
       ![p].calculated = OutstandingTotal(sales, Head(workers[p].todo)),
       ![p].pc = "compare"]
  /\ UNCHANGED <<customers, sales, customer_payments, sale_payments, last,
                 unit>>

\* SELECT current_balance and the comparison.  Without a correction the
\* loop goes on reading; the first UPDATE opens the transaction, and what
\* is left of the loop runs inside it and is committed with it.
ReconcileCompare(p) ==
  /\ workers[p].pc = "compare"
  /\ LET w == workers[p]
         c == Head(w.todo)
         rest == Range(Tail(w.todo))
         later == {d \in rest :
                     NeedsCorrection(OutstandingTotal(sales, d), customers[d])}
     IN IF NeedsCorrection(w.calculated, customers[c])
        THEN /\ customers' =
                  [d \in DOMAIN customers |->
                     IF d = c THEN w.calculated
                     ELSE IF d \in later THEN OutstandingTotal(sales, d)
                     ELSE customers[d]]
             /\ workers' = [workers EXCEPT ![p].pc = "done",
                              ![p].plan = Accepted(<<>>, 0, <<>>, 0, "", FALSE),
                              ![p].todo = <<>>,
                              ![p].updated = 1 + Cardinality(later)]
        ELSE /\ UNCHANGED customers
             /\ workers' = [workers EXCEPT
                  ![p].todo = Tail(w.todo),
                  ![p].plan = IF Tail(w.todo) = <<>>
                              THEN Accepted(<<>>, 0, <<>>, 0, "", FALSE)
                              ELSE w.plan,
                  ![p].pc = IF Tail(w.todo) = <<>> THEN "done" ELSE "sum"]
  /\ UNCHANGED <<sales, customer_payments, sale_payments, last, unit>>

NextConc ==
  \/ \E p \in Procs, op \in PaymentOps, a \in ConcAmounts,
        ids \in ConcSaleIdLists :
       ReadCustomer(p, op, 1, a, ids)
  \/ \E p \in Procs : DecidePayment(p)
  \/ \E p \in Procs : WritePayment(p)
  \/ \E p \in Procs : ReconcileStart(p)
  \/ \E p \in Procs : ReconcileSum(p)
  \/ \E p \in Procs : ReconcileCompare(p)

SpecConc == InitConc /\ [][NextConc]_vars

\* ------------------------------------ the adapter: pool and unit of work
\* get_connection and get_cursor of core/database.py, step by step, for one
\* request-handling thread; other threads only hand connections back to the
\* pool.  The ledger variables are what the connection of the open unit of
\* work sees, its own uncommitted writes included.
attempts == 5           \* attempts = 5
max_connections == 10   \* self.max_connections = 10
InitialDelay == 1       \* delay = 0.2, in units of 0.2 s

MaxUnits == 2           \* units of work opened in one behaviour
MaxPooled == 1          \* connections other threads leave in the pool

UnitAmounts == {0, Sub, 2 * Sub, 3 * Sub}
UnitSaleIdLists == {<<>>, <<1>>, <<1, 2>>}

\* The results of sqlite3.connect and the PRAGMAs: a connection, an
\* OperationalError "database is locked", or any other exception.
CreateResults == {"ok", "locked", "other"}

InitStore ==
  /\ \E s1 \in InvoiceShapes :
       sales = (1 :> Invoice(1, s1, 1))
               @@ (2 :> Invoice(1, [grand_total |-> 2 * Sub,
                                    balance_due |-> 2 * Sub,
                                    payment_status |-> "pending"], 2))
               @@ (3 :> Invoice(2, [grand_total |-> Sub, balance_due |-> Sub,
                                    payment_status |-> "pending"], 1))
  /\ customers = [c \in Customers |-> OutstandingTotal(sales, c)]
  /\ customer_payments = <<>>
  /\ sale_payments = <<>>
  /\ last = NoRequest
  /\ workers = [p \in Procs |-> IdleWorker]
  /\ unit = IdleUnit

\* with db.get_cursor() as cur: the call of get_connection.
StartUnit ==
  /\ unit.pc \in {"idle", "exited", "failed"}
  /\ unit.units < MaxUnits
  /\ unit' = [IdleUnit EXCEPT !.pc = "acquire", !.units = unit.units + 1,
                              !.pool = unit.pool, !.delay = InitialDelay]
  /\ UNCHANGED <<customers, sales, customer_payments, sale_payments, last,
                 workers>>

\* get_connection returns: conn.cursor(), and the body begins.
Acquired(u) ==
  [u EXCEPT !.pc = "body", !.held = TRUE, !.cursor = "open",
            !.attempt = 0, !.delay = 0, !.error = "none"]

\* get_connection raises: get_cursor has nothing to release, the handler
\* turns the exception into a response with status 500.
AcquireFailed(u, error) ==
  [u EXCEPT !.pc = "failed", !.error = error, !.raised = "acquire",
            !.status = 500]

\* An iteration of the loop that finds a pooled connection: it is popped
\* and tested with SELECT 1; one that fails the test is closed.
TryPooled ==
  /\ unit.pc = "acquire" /\ unit.attempt < attempts
  /\ unit.pool > 0
  /\ \E ok \in BOOLEAN :
       unit' = IF ok
               THEN Acquired([unit EXCEPT !.pool = unit.pool - 1])
               ELSE [unit EXCEPT !.pool = unit.pool - 1, !.error = "stale",
                                 !.pc = "sleep"]
  /\ UNCHANGED <<customers, sales, customer_payments, sale_payments, last,
                 workers>>

\* What an iteration with an empty pool does with the result of
\* create_new_connection.
CreateOutcome(u, result) ==
  IF result = "ok" THEN Acquired(u)
  ELSE IF result = "locked" /\ u.attempt < attempts - 1
  THEN [u EXCEPT !.error = "locked", !.pc = "sleep"]
  ELSE AcquireFailed(u, result)

\* An iteration of the loop that finds the pool empty.
TryCreate ==
  /\ unit.pc = "acquire" /\ unit.attempt < attempts
  /\ unit.pool = 0
  /\ \E result \in CreateResults : unit' = CreateOutcome(unit, result)
  /\ UNCHANGED <<customers, sales, customer_payments, sale_payments, last,
                 workers>>

\* The backoff that starts the loop over: attempts and delay begin again.
SleepStartsOver ==
  /\ unit.pc = "sleep"
  /\ unit' = [unit EXCEPT !.attempt = 0, !.delay = InitialDelay,
                          !.pc = "acquire"]
  /\ UNCHANGED <<customers, sales, customer_payments, sale_payments, last,
                 workers>>

\* time.sleep(delay); delay *= 2, and the next iteration.
Sleep ==
  /\ unit.pc = "sleep"
  /\ unit' = [unit EXCEPT !.attempt = unit.attempt + 1,
                          !.delay = 2 * unit.delay, !.pc = "acquire"]
  /\ UNCHANGED <<customers, sales, customer_payments, sale_payments, last,
                 workers>>

\* After the loop: return self.create_new_connection().
FinalCreate ==
  /\ unit.pc = "acquire" /\ unit.attempt = attempts
  /\ \E result \in CreateResults :
       unit' = IF result = "ok" THEN Acquired(unit)
               ELSE AcquireFailed(unit, result)
  /\ UNCHANGED <<customers, sales, customer_payments, sale_payments, last,
                 workers>>

\* return_connection called by another thread while this one sleeps.
OtherThreadReturns ==
  /\ unit.pc = "sleep"
  /\ unit.pool < MaxPooled
  /\ unit' = [unit EXCEPT !.pool = unit.pool + 1]
  /\ UNCHANGED <<customers, sales, customer_payments, sale_payments, last,
                 workers>>

\* One statement of the writing part of a handler.
Step(kind, u, value) == [kind |-> kind, u |-> u, value |-> value]

NoUpdate ==
  [sale_id |-> 0, amount_applied |-> 0, new_balance |-> 0, new_status |-> ""]

\* The statements a handler issues after its checks, in order: the UPDATE
\* of every invoice, the UPDATE of the customer, the INSERT of the payment
\* and the INSERTs of the allocations.  pay_customer_credit issues its
\* UPDATE of the customer and then the UPDATE of sales that SQLite rejects.
Statements(op, plan, current_balance, amount) ==
  IF plan.status = 200
  THEN [i \in 1..Len(plan.updated_sales) |->
          Step("sale", plan.updated_sales[i], 0)]
       \o <<Step("customer", NoUpdate, plan.new_balance),
            Step("payment", NoUpdate, plan.payment_amount)>>
       \o (IF plan.allocations
           THEN [i \in 1..Len(plan.updated_sales) |->
                   Step("allocation", plan.updated_sales[i], 0)]
           ELSE <<>>)
  ELSE IF op = "pay_customer_credit" /\ plan.status = 500
  THEN <<Step("customer", NoUpdate, current_balance - amount),
         Step("raise", NoUpdate, 0)>>
  ELSE <<>>

Snapshot ==
  [customers |-> customers, sales |-> sales,
   customer_payments |-> customer_payments, sale_payments |-> sale_payments]

\* The body up to its first write: the SELECTs and the checks.  A rejected
\* request raises HTTPException inside the with-block.
Decide(op, customer_id, amount, sale_ids) ==
  /\ unit.pc = "body"
  /\ \E rows \in SelectSales(sales, op, customer_id, sale_ids) :
       LET plan == HandlerBody(op, customer_id \in DOMAIN customers,
                               CurrentBalance(customers, customer_id),
                               rows, amount, sale_ids)
           todo == Statements(op, plan,
                              CurrentBalance(customers, customer_id), amount)
       IN unit' = [unit EXCEPT
                     !.op = op, !.customer_id = customer_id,
                     !.amount = amount, !.sale_ids = sale_ids,
                     !.plan = plan, !.todo = todo, !.before = Snapshot,
                     !.pc = IF todo = <<>> THEN "rollback" ELSE "write",
                     !.raised = IF todo = <<>> THEN "http" ELSE "none"]
  /\ UNCHANGED <<customers, sales, customer_payments, sale_payments, last,
                 workers>>

\* cur.execute of one statement.
Execute(w, customer_id, payment_type) ==
  /\ sales' = IF w.kind = "sale" THEN UpdateSales(sales, <<w.u>>) ELSE sales
  /\ customers' = IF w.kind = "customer"
                  THEN UpdateCustomer(customers, customer_id, w.value)
                  ELSE customers
  /\ customer_payments' =
       IF w.kind = "payment"
       THEN InsertPayment(customer_payments, customer_id, w.value,
                          payment_type)
       ELSE customer_payments
  /\ sale_payments' =
       IF w.kind = "allocation"
       THEN InsertAllocations(sale_payments, <<w.u>>, Len(customer_payments))
       ELSE sale_payments

\* The next statement succeeds, or it is the one SQLite rejects.
Write ==
  /\ unit.pc = "write"
  /\ LET w == Head(unit.todo) IN
       /\ Execute(w, unit.customer_id, unit.plan.payment_type)
       /\ unit' = [unit EXCEPT
                     !.todo = Tail(unit.todo),
                     !.applied = IF w.kind = "raise" THEN unit.applied
                                 ELSE unit.applied + 1,
                     !.raised = IF w.kind = "raise" THEN "storage"
                                ELSE unit.raised,
                     !.pc = IF w.kind = "raise" THEN "rollback"
                            ELSE IF Tail(unit.todo) = <<>> THEN "commit"
                            ELSE "write"]
  /\ UNCHANGED <<last, workers>>

\* The next UPDATE of an invoice or of the customer, or the INSERT of the
\* payment, raises (locked store, constraint, I/O).
WriteFails ==
  /\ unit.pc = "write"
  /\ Head(unit.todo).kind \in {"sale", "customer", "payment"}
  /\ unit' = [unit EXCEPT !.pc = "rollback", !.raised = "storage"]
  /\ UNCHANGED <<customers, sales, customer_payments, sale_payments, last,
                 workers>>

\* The INSERT of an allocation without the try around it: its exception
\* leaves the body.
AllocationAborts ==
  /\ unit.pc = "write"
  /\ Head(unit.todo).kind = "allocation"
  /\ unit' = [unit EXCEPT !.pc = "rollback", !.raised = "storage"]
  /\ UNCHANGED <<customers, sales, customer_payments, sale_payments, last,
                 workers>>

\* The INSERT of an allocation raises: the except clause around it logs
\* the failure and the loop goes on.
AllocationFails ==
  /\ unit.pc = "write"
  /\ Head(unit.todo).kind = "allocation"
  /\ unit' = [unit EXCEPT
                !.todo = Tail(unit.todo),
                !.pc = IF Tail(unit.todo) = <<>> THEN "commit" ELSE "write"]
  /\ UNCHANGED <<customers, sales, customer_payments, sale_payments, last,
                 workers>>

\* conn.commit() after the body completed; a commit that raises is handled
\* by the except clause like an exception of the body.
CommitUnit ==
  /\ unit.pc = "commit"
  /\ \E ok \in BOOLEAN :
       unit' = IF ok
               THEN [unit EXCEPT !.pc = "finally", !.outcome = "committed"]
               ELSE [unit EXCEPT !.pc = "rollback", !.raised = "storage"]
  /\ UNCHANGED <<customers, sales, customer_payments, sale_payments, last,
                 workers>>

\* A rollback that leaves the writes of the transaction in place.
RollbackKeepsWrites(before, now) == now

\* conn.rollback(): the store is again what it was when the transaction
\* began.
Rollback(before, now) == before

\* except Exception: conn.rollback(); raise
RollbackUnit ==
  /\ unit.pc = "rollback"
  /\ LET store == Rollback(unit.before, Snapshot) IN
       /\ customers' = store.customers
       /\ sales' = store.sales
       /\ customer_payments' = store.customer_payments
       /\ sale_payments' = store.sale_payments
  /\ unit' = [unit EXCEPT !.pc = "finally", !.outcome = "rolled_back"]
  /\ UNCHANGED <<last, workers>>

\* The status of the response: the handler's own, or 500 for an exception
\* that is not an HTTPException.
ResponseStatus(u) ==
  IF u.raised = "storage" THEN 500
  ELSE IF u.raised = "http" THEN u.plan.status
  ELSE 200

\* The release placed after the try statement instead of in its finally
\* clause: an exception passes it by.
ReleaseOnSuccessOnly ==
  /\ unit.pc = "finally"
  /\ unit' = IF unit.raised = "none"
             THEN [unit EXCEPT
                     !.pc = "exited", !.cursor = "closed", !.held = FALSE,
                     !.pool = IF unit.pool < max_connections
                              THEN unit.pool + 1 ELSE unit.pool,
                     !.status = ResponseStatus(unit)]
             ELSE [unit EXCEPT !.pc = "exited",
                               !.status = ResponseStatus(unit)]
  /\ UNCHANGED <<customers, sales, customer_payments, sale_payments, last,
                 workers>>

\* finally: cursor.close(); self.return_connection(conn).  The connection
\* is appended to the pool, or closed when the pool is full.
Release ==
  /\ unit.pc = "finally"
  /\ unit' = [unit EXCEPT
                !.pc = "exited", !.cursor = "closed", !.held = FALSE,
                !.pool = IF unit.pool < max_connections
                         THEN unit.pool + 1 ELSE unit.pool,
                !.status = ResponseStatus(unit)]
  /\ UNCHANGED <<customers, sales, customer_payments, sale_payments, last,
                 workers>>

\* The steps of the thread itself.
UnitStep ==
  \/ TryPooled
  \/ TryCreate
  \/ Sleep
  \/ FinalCreate
  \/ \E op \in PaymentOps, c \in ReqCustomers, a \in UnitAmounts,
        ids \in UnitSaleIdLists : Decide(op, c, a, ids)
  \/ Write
  \/ WriteFails
  \/ AllocationFails
  \/ CommitUnit
  \/ RollbackUnit
  \/ Release

NextStore ==
  \/ StartUnit
  \/ TryPooled
  \/ TryCreate
  \/ Sleep
  \/ FinalCreate
  \/ OtherThreadReturns
  \/ \E op \in PaymentOps, c \in ReqCustomers, a \in UnitAmounts,
        ids \in UnitSaleIdLists : Decide(op, c, a, ids)
  \/ Write
  \/ WriteFails
  \/ AllocationFails
  \/ CommitUnit
  \/ RollbackUnit
  \/ Release

SpecStore == InitStore /\ [][NextStore]_vars

\* A thread that has a step to take takes it: sleep returns, a statement
\* returns or raises.
SpecStoreFair == SpecStore /\ WF_vars(UnitStep)

Init == InitLedger

Next ==
  \/ \E c \in ReqCustomers, a \in Amounts, ids \in SaleIdLists :
       Requested(c, ids) /\ ProcessCustomerPayment(c, a, ids)
  \/ \E c \in ReqCustomers, a \in Amounts, ids \in SaleIdLists :
       Requested(c, ids) /\ ProcessComprehensiveCreditPayment(c, a, ids)
  \/ \E c \in ReqCustomers, a \in Amounts : PayCustomerCredit(c, a)
  \/ ReconcileCustomerBalances

Spec == Init /\ [][Next]_vars

\* ================================================================ claims
Done(p) == workers[p].pc = "done"
Succeeded(p) == Done(p) /\ workers[p].plan.status = 200

\* Worker p served a general-mode payment of `amount' for customer 1.
GeneralBy(p, ops, amount) ==
  /\ Done(p)
  /\ workers[p].op \in ops
  /\ workers[p].sale_ids = <<>>
  /\ workers[p].customer_id = 1
  /\ workers[p].amount = amount

BalanceExceeded(p) ==
  /\ Done(p)
  /\ workers[p].plan.status = 400
  /\ workers[p].plan.detail = "Payment amount exceeds outstanding balance"

\* C1: of two general-mode payments of 80 and 90 served concurrently
\* through process_customer_payment for a customer who owes 100, exactly
\* one succeeds and the other is rejected because it exceeds the balance.
C1_ExactlyOneSucceeds ==
  \A p, q \in Procs :
    (/\ p # q
     /\ GeneralBy(p, {"process_customer_payment"}, Money(80))
     /\ GeneralBy(q, {"process_customer_payment"}, Money(90)))
    => \/ Succeeded(p) /\ BalanceExceeded(q)
       \/ Succeeded(q) /\ BalanceExceeded(p)

\* C2: when two general-mode payments a and b for the same customer both
\* succeed, the stored current_balance and the invoice balances are those
\* of the two payments served one after the other: 100 - a - b is left.
C2_PaymentsSerialize ==
  \A p, q \in Procs :
    (/\ p # q
     /\ \E a, b \in ConcAmounts :
          /\ GeneralBy(p, {"process_customer_payment",
                           "process_comprehensive_credit_payment"}, a)
          /\ GeneralBy(q, {"process_customer_payment",
                           "process_comprehensive_credit_payment"}, b)
     /\ Succeeded(p) /\ Succeeded(q))
    => /\ customers[1] = Money(100) - workers[p].amount - workers[q].amount
       /\ OutstandingTotal(sales, 1) =
            Money(100) - workers[p].amount - workers[q].amount

\* ---- claims about one request at a time, checked under Spec
EntryPoints == {"process_customer_payment",
                "process_comprehensive_credit_payment"}

AcceptedGeneral(r) ==
  r.op \in EntryPoints /\ r.sale_ids = <<>> /\ r.status = 200

AcceptedPayment(r) == r.op \in PaymentOps /\ r.status = 200

Max0(x) == IF x < 0 THEN 0 ELSE x

\* current_balance of the customer is the sum of the balance_due of its
\* pending and partial invoices.
LedgerConsistent(cs, sl, c) == cs[c] = OutstandingTotal(sl, c)

\* C3: every invoice has 0 <= balance_due <= grand_total.
C3_BalanceDueInRange ==
  \A id \in DOMAIN sales :
    /\ 0 <= sales[id].balance_due
    /\ sales[id].balance_due <= sales[id].grand_total

C3_Witness ==
  /\ Len(customer_payments) = 2
  /\ last.op = "process_comprehensive_credit_payment"
  /\ last.sale_ids # <<>> /\ last.status = 200
  /\ \E id \in DOMAIN sales :
       /\ sales[id].payment_status = "partial"
       /\ 0 < sales[id].balance_due
       /\ sales[id].balance_due < sales[id].grand_total

\* C4: the amounts applied by an accepted general-mode payment add up to
\* the amount paid.
C4_AppliedSumsToAmount ==
  AcceptedGeneral(last) =>
    SumSeq(AmountsApplied(last.updated_sales)) = last.amount

C4_Witness ==
  /\ AcceptedGeneral(last)
  /\ Len(last.updated_sales) = 2
  /\ last.updated_sales[2].amount_applied > 0

\* C5: an accepted general-mode payment stores, and returns, the balance
\* max(0, old_balance - amount).
C5_NewBalance ==
  [][AcceptedGeneral(last') =>
       /\ customers'[last'.customer_id] =
            Max0(customers[last'.customer_id] - last'.amount)
       /\ last'.new_balance =
            Max0(customers[last'.customer_id] - last'.amount)]_vars

C5_Witness ==
  /\ AcceptedGeneral(last)
  /\ last.new_balance > 0
  /\ customers[last.customer_id] = last.new_balance

\* C6: a successful payment for a customer whose current_balance equals
\* the sum of its outstanding balance_due leaves the two equal.
C6_LedgerConsistencyKept ==
  [][(/\ AcceptedPayment(last')
      /\ LedgerConsistent(customers, sales, last'.customer_id))
     => LedgerConsistent(customers', sales', last'.customer_id)]_vars

\* C7: no current_balance is ever negative.
C7_BalanceNotNegative == \A c \in DOMAIN customers : customers[c] >= 0

C7_Witness ==
  /\ \A p \in Procs : Succeeded(p)
  /\ \E p, q \in Procs :
       /\ workers[p].op = "reconcile_customer_balances"
       /\ workers[p].updated > 0
       /\ workers[q].op \in EntryPoints
  /\ customers[1] = Money(100)

\* C8: a general-mode payment is applied in ascending creation order: the
\* invoices it touches come oldest first, all but the last of them end
\* 'paid' with balance 0, no older outstanding invoice of the customer is
\* left with a balance, and paid_sales lists the invoices that ended paid.
C8_OldestFirst ==
  AcceptedGeneral(last) =>
    LET u == last.updated_sales IN
    /\ \A i, j \in 1..Len(u) : i < j =>
         sales[u[i].sale_id].created_at <= sales[u[j].sale_id].created_at
    /\ \A i \in 1..Len(u) : i < Len(u) =>
         /\ u[i].new_status = "paid" /\ u[i].new_balance = 0
         /\ sales[u[i].sale_id].payment_status = "paid"
         /\ sales[u[i].sale_id].balance_due = 0
    /\ \A i \in 1..Len(u) : \A e \in DOMAIN sales :
         (/\ u[i].amount_applied > 0
          /\ sales[e].customer_id = last.customer_id
          /\ sales[e].created_at < sales[u[i].sale_id].created_at)
         => ~(/\ sales[e].payment_status \in {"pending", "partial"}
              /\ sales[e].balance_due > 0)
    /\ last.paid_sales = PaidSales(u)
    /\ \A i \in 1..Len(u) :
         /\ sales[u[i].sale_id].balance_due = u[i].new_balance
         /\ sales[u[i].sale_id].payment_status = u[i].new_status

\* The invoice with the smaller id is the younger one; the older is paid
\* in full and the younger in part.
C8_Witness ==
  /\ AcceptedGeneral(last)
  /\ Len(last.updated_sales) = 2
  /\ last.updated_sales[1].sale_id = 2
  /\ last.updated_sales[2].sale_id = 1
  /\ sales[1].created_at > sales[2].created_at
  /\ sales[2].payment_status = "paid"
  /\ sales[1].payment_status = "partial"
  /\ last.paid_sales = <<2>>

\* C9: a general-mode payment of exactly the customer's current_balance
\* leaves current_balance 0 and every invoice of the customer that was
\* pending or partial 'paid' with balance_due 0.
C9_ExactPaymentSettlesAll ==
  [][(/\ AcceptedGeneral(last')
      /\ last'.amount = customers[last'.customer_id])
     => /\ customers'[last'.customer_id] = 0
        /\ \A id \in Outstanding(sales, last'.customer_id) :
             /\ sales'[id].payment_status = "paid"
             /\ sales'[id].balance_due = 0]_vars

\* Some id of the request names no sales row of the customer.
NotOwned(sl, customer_id, sale_ids) ==
  \E i \in 1..Len(sale_ids) :
    \/ sale_ids[i] \notin DOMAIN sl
    \/ sl[sale_ids[i]].customer_id # customer_id

\* C10: a targeted payment naming a sale that does not exist or is another
\* customer's is rejected with a validation error and changes no row.
C10_ForeignSaleRejected ==
  [][(/\ last'.op \in EntryPoints
      /\ last'.sale_ids # <<>>
      /\ NotOwned(sales, last'.customer_id, last'.sale_ids))
     => /\ last'.status \in {400, 404}
        /\ UNCHANGED <<customers, sales, customer_payments,
                       sale_payments>>]_vars

C10_Witness ==
  /\ last.op \in EntryPoints
  /\ last.sale_ids = <<1, 3>>
  /\ last.customer_id = 1
  /\ last.amount > 0
  /\ last.status = 400
  /\ last.detail = "One or more sales not found or do not belong to this customer"
  /\ sales[1].payment_status = "pending"
  /\ customer_payments = <<>>

Ledger == <<customers, sales, customer_payments, sale_payments>>

Targeted(r) == r.op \in EntryPoints /\ r.sale_ids # <<>>

\* C11: a targeted payment naming an invoice that is already 'paid' is
\* rejected with a validation error and changes no row.
C11_PaidSaleRejected ==
  [][(/\ Targeted(last')
      /\ \E id \in Range(last'.sale_ids) :
           id \in DOMAIN sales /\ sales[id].payment_status = "paid")
     => /\ last'.status \in {400, 404}
        /\ UNCHANGED Ledger]_vars

NamedTotal(sl, sale_ids) ==
  SumSeq([i \in 1..Len(sale_ids) |->
            IF sale_ids[i] \in DOMAIN sl THEN SaleBalance(sl[sale_ids[i]])
            ELSE 0])

C14_ValidationErrorChangesNothing ==
  [][(last'.op \in PaymentOps /\ last'.status \in {400, 404})
     => UNCHANGED Ledger]_vars

C14_Witness ==
  /\ last.op = "process_comprehensive_credit_payment"
  /\ last.status = 400
  /\ last.detail = "Payment amount exceeds total balance due"
  /\ Len(customer_payments) = 1
  /\ sale_payments # <<>>

\* C15: a general-mode payment of more than the customer's current_balance
\* is rejected and nothing is written: no invoice, no balance, no payment.
C15_ExceedingPaymentRejected ==
  [][(/\ last'.op \in EntryPoints /\ last'.sale_ids = <<>>
      /\ last'.customer_id \in DOMAIN customers
      /\ last'.amount > customers[last'.customer_id])
     => /\ last'.status = 400
        /\ last'.detail \in
             {"Payment amount exceeds outstanding balance",
              "Payment amount exceeds customer's outstanding balance"}
        /\ UNCHANGED Ledger]_vars

C15_Witness ==
  /\ last.op = "process_comprehensive_credit_payment"
  /\ last.sale_ids = <<>>
  /\ last.status = 400
  /\ last.detail = "Payment amount exceeds customer's outstanding balance"
  /\ last.amount > customers[last.customer_id]
  /\ customers[last.customer_id] > 0
  /\ Len(customer_payments) = 1

\* C16: a reconciliation run that directly follows another one corrects no
\* customer and leaves every current_balance as it found it.
C16_ReconcileIdempotent ==
  [][(/\ last.op = "reconcile_customer_balances"
      /\ last'.op = "reconcile_customer_balances")
     => /\ last'.updated = 0
        /\ customers' = customers]_vars

\* The second of two runs, the first of which corrected a balance.
C16_Witness ==
  /\ last.op = "reconcile_customer_balances"
  /\ last.repeat /\ last.before > 0
  /\ last.updated = 0
  /\ \A c \in DOMAIN customers : customers[c] = OutstandingTotal(sales, c)

\* C17: an accepted payment appends exactly one customer_payments row, of
\* its customer; every other request leaves the relation as it is; rows
\* already there are never changed or removed.
C17_PaymentsAppendOnly ==
  [][/\ AcceptedPayment(last') =>
          /\ Len(customer_payments') = Len(customer_payments) + 1
          /\ customer_payments'[Len(customer_payments')].customer_id =
               last'.customer_id
     /\ ~AcceptedPayment(last') => customer_payments' = customer_payments
     /\ Len(customer_payments') >= Len(customer_payments)
     /\ \A i \in 1..Len(customer_payments) :
          customer_payments'[i] = customer_payments[i]]_vars

C17_Witness ==
  /\ Len(customer_payments) = 2
  /\ customer_payments[1].customer_id = 1
  /\ customer_payments[2].customer_id = 1
  /\ customer_payments[1].payment_type = "specific_sales_payment"
  /\ AcceptedPayment(last)

\* ---- claims about the adapter, checked under SpecStore
\* C13: when an UPDATE of an invoice, the UPDATE of the customer, the
\* INSERT of the payment or the commit raises inside a payment's unit of
\* work, the four relations are, once the scope has exited, what they were
\* before the payment started.
C13_AllOrNothing ==
  (unit.pc = "exited" /\ unit.raised = "storage") => Snapshot = unit.before

\* A payment of two invoices that failed at its INSERT of the payment.
C13_Witness ==
  /\ unit.pc = "exited" /\ unit.raised = "storage"
  /\ unit.op \in EntryPoints
  /\ unit.plan.status = 200
  /\ unit.applied = 3
  /\ unit.todo # <<>> /\ Head(unit.todo).kind = "payment"
  /\ unit.status = 500
  /\ Snapshot = unit.before

\* C18: a get_cursor scope that has exited was either committed, with no
\* exception, or rolled back with the exception passed on to the caller;
\* in both cases the cursor is closed and the connection was handed to
\* return_connection.
C18_ScopeEndsCleanly ==
  unit.pc = "exited" =>
    /\ unit.outcome \in {"committed", "rolled_back"}
    /\ unit.outcome = "committed" <=> unit.raised = "none"
    /\ unit.outcome = "committed" => unit.todo = <<>> /\ unit.status = 200
    /\ unit.outcome = "rolled_back" => unit.status \in {400, 404, 500}
    /\ unit.cursor = "closed"
    /\ ~unit.held
    /\ unit.pool >= 1

C18_Witness ==
  /\ unit.pc = "exited"
  /\ unit.units = 2
  /\ unit.outcome = "rolled_back" /\ unit.raised = "http"
  /\ unit.cursor = "closed" /\ ~unit.held /\ unit.pool = 1
  /\ Len(customer_payments) = 1

\* C19: get_connection makes at most five loop attempts and one final
\* create, and every call of it ends, with a connection or with an
\* exception.
C19_AcquisitionEnds ==
  /\ [](unit.attempt <= attempts)
  /\ (unit.pc \in {"acquire", "sleep"}) ~> (unit.pc \in {"body", "failed"})

\* The loop ran out and the final create found the store locked.
C19_Witness ==
  /\ unit.pc = "failed"
  /\ unit.attempt = attempts
  /\ unit.error = "locked"
  /\ unit.status = 500

\* C20: get_connection waits and retries only after a create that failed
\* with 'locked'; any other error ends the call on the attempt where it
\* occurs.
C20_RetryOnlyWhenLocked ==
  [][unit.pc = "acquire" =>
       /\ unit'.pc = "sleep" => unit'.error = "locked"
       /\ unit'.error \notin {"none", "locked"} => unit'.pc = "failed"]_vars

\* ---- claims about the invoice lifecycle, checked under Spec
\* C21: no request changes the balance_due or the payment_status of an
\* invoice that is 'paid', and no invoice goes back from 'partial' to
\* 'pending'.
C21_PaidIsTerminal ==
  [][\A id \in DOMAIN sales :
       /\ sales[id].payment_status = "paid" => sales'[id] = sales[id]
       /\ sales[id].payment_status = "partial" =>
            sales'[id].payment_status # "pending"]_vars

\* C22: no payment applies an amount to an invoice that is 'cancelled' or
\* changes its balance_due or payment_status.
C22_CancelledNeverPaid ==
  [][\A id \in DOMAIN sales : sales[id].payment_status = "cancelled" =>
       /\ sales'[id] = sales[id]
       /\ AcceptedPayment(last') =>
            \A i \in 1..Len(last'.updated_sales) :
              last'.updated_sales[i].sale_id # id]_vars

\* C23: the stored balance_due of an invoice never grows under a payment.
C23_BalanceDueNeverGrows ==
  [][\A id \in DOMAIN sales :
       sales'[id].balance_due <= sales[id].balance_due]_vars

\* ------------------------------- sale creation and customer deletion
MaxSales == 2           \* sales rows created in one behaviour

\* total_amount of a new sale, customer_id (0 is no customer, a walk-in
\* sale; 3 has no row), and the payment_status a create_sale request may
\* carry ('paid' is also what a request without one gets; 'completed' is
\* outside the CHECK of the column).
SaleTotals == {0, Sub, 2 * Sub}
SaleCustomers == {0, 1, 3}
RequestedStatuses == Statuses \cup {"completed"}

\* The store of a new installation: customers are registered, nothing is
\* sold yet.
InitSales ==
  /\ sales = <<>>
  /\ customers = [c \in Customers |-> 0]
  /\ customer_payments = <<>>
  /\ sale_payments = <<>>
  /\ last = NoRequest
  /\ workers = [p \in Procs |-> IdleWorker]
  /\ unit = IdleUnit

\* FOREIGN KEY (customer_id) REFERENCES customers(id), with PRAGMA
\* foreign_keys = ON on every connection; NULL references nothing.
ReferenceHolds(cs, customer_id) ==
  customer_id = 0 \/ customer_id \in DOMAIN cs

\* INSERT INTO sales (invoice_number, customer_id, grand_total, ...,
\* payment_status, ...): balance_due is not among the columns and gets the
\* column default 0; the id is the next AUTOINCREMENT value and created_at
\* the time of the request.
InsertSale(sl, customer_id, grand_total, payment_status) ==
  LET id == Cardinality(DOMAIN sl) + 1
  IN [i \in DOMAIN sl \cup {id} |->
        IF i \in DOMAIN sl THEN sl[i]
        ELSE [customer_id |-> customer_id, grand_total |-> grand_total,
              balance_due |-> 0, payment_status |-> payment_status,
              created_at |-> id]]

\* What a request of this part answers.
Answer(op, customer_id, amount, status) ==
  last' = [NoRequest EXCEPT !.op = op, !.customer_id = customer_id,
                            !.amount = amount, !.status = status]

\* One sale-creating request: the INSERT into sales and, when items come
\* with the request, the statements that follow it.  rest_fails says that
\* one of those raises, which rolls the INSERT back.
ServeSale(op, customer_id, total_amount, payment_status, rest_fails) ==
  /\ Serving
  /\ Cardinality(DOMAIN sales) < MaxSales
  /\ IF /\ ReferenceHolds(customers, customer_id)
        /\ payment_status \in Statuses
        /\ ~rest_fails
     THEN /\ sales' = InsertSale(sales, customer_id, total_amount,
                                 payment_status)
          /\ Answer(op, customer_id, total_amount, 200)
     ELSE /\ sales' = sales
          /\ Answer(op, customer_id, total_amount, 500)
  /\ UNCHANGED <<customers, customer_payments, sale_payments, workers, unit>>

\* POST /sales/ : the INSERT into sale_items names the columns total_price
\* and updated_at, which the table does not have, so a request with items
\* fails.
CreateSale(customer_id, total_amount, payment_status, items) ==
  ServeSale("create_sale", customer_id, total_amount, payment_status, items)

\* POST /pos/transaction : the sale is 'paid'; a product that is not found
\* ends the request.
CreatePosTransaction(customer_id, total_amount, product_missing) ==
  ServeSale("create_pos_transaction", customer_id, total_amount, "paid",
            product_missing)

\* POST /pos/hold-sale : the sale is 'pending'.
HoldSale(customer_id, total_amount, product_missing) ==
  ServeSale("hold_sale", customer_id, total_amount, "pending",
            product_missing)

\* Rows that reference a customer and keep it from being deleted: its
\* sales, and rows of relations outside the ledger (customer_price_groups,
\* credit_sales, customer_loyalty), given as other_rows.
Referenced(sl, customer_id, other_rows) ==
  other_rows \/ \E id \in DOMAIN sl : sl[id].customer_id = customer_id

\* DELETE FROM customers with PRAGMA foreign_keys off.
DeleteCustomerUnchecked(customer_id, other_rows) ==
  /\ Serving
  /\ customers' = [c \in DOMAIN customers \ {customer_id} |-> customers[c]]
  /\ Answer("delete_customer", customer_id, 0, 200)
  /\ UNCHANGED <<sales, customer_payments, sale_payments, workers, unit>>

\* DELETE /customers/{customer_id}
DeleteCustomer(customer_id, other_rows) ==
  /\ Serving
  /\ IF Referenced(sales, customer_id, other_rows)
     THEN /\ customers' = customers
          /\ Answer("delete_customer", customer_id, 0, 500)
     ELSE /\ customers' =
               [c \in DOMAIN customers \ {customer_id} |-> customers[c]]
          /\ Answer("delete_customer", customer_id, 0, 200)
  /\ UNCHANGED <<sales, customer_payments, sale_payments, workers, unit>>

NextSales ==
  \/ \E c \in SaleCustomers, t \in SaleTotals, s \in RequestedStatuses,
        items \in BOOLEAN : CreateSale(c, t, s, items)
  \/ \E c \in SaleCustomers, t \in SaleTotals, missing \in BOOLEAN :
       CreatePosTransaction(c, t, missing)
  \/ \E c \in SaleCustomers, t \in SaleTotals, missing \in BOOLEAN :
       HoldSale(c, t, missing)
  \/ \E c \in Customers \cup ReqCustomers, other_rows \in BOOLEAN :
       DeleteCustomer(c, other_rows)

SpecSales == InitSales /\ [][NextSales]_vars

\* ---- claims about sale creation and deletion, checked under SpecSales
\* C24: a sales row is created 'pending' with balance_due equal to its
\* grand_total, or 'paid'.
C24_CreatedWithBalance ==
  [][\A id \in DOMAIN sales' \ DOMAIN sales :
       \/ /\ sales'[id].payment_status = "pending"
          /\ sales'[id].balance_due = sales'[id].grand_total
       \/ sales'[id].payment_status = "paid"]_vars

C25_ReconcileWithinTolerance ==
  [][last'.op = "reconcile_customer_balances" =>
       /\ \A c \in DOMAIN customers :
            /\ Abs(OutstandingTotal(sales', c) - customers'[c]) <= Sub
            /\ customers'[c] =
                 IF Abs(OutstandingTotal(sales, c) - customers[c]) > Sub
                 THEN OutstandingTotal(sales, c) ELSE customers[c]
       /\ last'.updated =
            Cardinality({c \in DOMAIN customers :
              Abs(OutstandingTotal(sales, c) - customers[c]) > Sub})]_vars

\* A first run that corrected customer 1 and found customer 2 in order.
C25_Witness ==
  /\ last.op = "reconcile_customer_balances" /\ ~last.repeat
  /\ last.updated = 1
  /\ customers[1] = OutstandingTotal(sales, 1)
  /\ customers[2] = OutstandingTotal(sales, 2)

\* C26: a reconciliation run leaves every invoice, every payment record
\* and every allocation row as it found them.
C26_ReconcileFrame ==
  [][last'.op = "reconcile_customer_balances" =>
       UNCHANGED <<sales, customer_payments, sale_payments>>]_vars

\* A run that made a correction, on a store that holds payments, allocation
\* rows and an invoice that was paid in part.
C26_Witness ==
  /\ last.op = "reconcile_customer_balances"
  /\ last.updated > 0
  /\ customer_payments # <<>>
  /\ sale_payments # <<>>
  /\ \E id \in DOMAIN sales : sales[id].payment_status = "partial"

\* ---- claims about the allocation audit rows
\* The sum of the sale_payments rows recorded for a payment.
AllocatedTo(sp, payment_id) ==
  SumSeq([i \in 1..Len(sp) |->
            IF sp[i].customer_payment_id = payment_id THEN sp[i].amount
            ELSE 0])

\* C27 (Spec): the sale_payments rows of every payment sum to the amount of
\* its customer_payments row.
C27_AllocationsSumToPayment ==
  \A i \in 1..Len(customer_payments) :
    AllocatedTo(sale_payments, i) = customer_payments[i].amount

\* C28 (SpecStore): an INSERT of an allocation that raises does not end the
\* unit of work: the body goes on with its next statement, no exception
\* leaves it, and the unit is committed with the invoice updates, the
\* customer's balance and the payment record, and answers 200.
C28_AllocationFailureSwallowed ==
  /\ [][(/\ unit.pc = "write"
         /\ Head(unit.todo).kind = "allocation"
         /\ sale_payments' = sale_payments)
        => /\ unit'.todo = Tail(unit.todo)
           /\ unit'.raised = "none"
           /\ unit'.pc \in {"write", "commit"}
           /\ UNCHANGED Ledger]_vars
  /\ [](( /\ unit.pc = "exited" /\ unit.outcome = "committed"
          /\ unit.plan.allocations
          /\ Len(sale_payments) <
               Len(unit.before.sale_payments) + Len(unit.plan.updated_sales))
        => /\ unit.status = 200
           /\ sales = UpdateSales(unit.before.sales, unit.plan.updated_sales)
           /\ customers = UpdateCustomer(unit.before.customers,
                                         unit.customer_id,
                                         unit.plan.new_balance)
           /\ customer_payments =
                InsertPayment(unit.before.customer_payments,
                              unit.customer_id, unit.plan.payment_amount,
                              unit.plan.payment_type))

\* A payment of two invoices whose first allocation INSERT failed and whose
\* second one was made.
C28_Witness ==
  /\ unit.pc = "exited" /\ unit.outcome = "committed" /\ unit.status = 200
  /\ Len(unit.plan.updated_sales) = 2
  /\ Len(customer_payments) = 1
  /\ Len(sale_payments) = 1 /\ sale_payments[1].sale_id = 2
  /\ sales[1].payment_status = "paid"

\* C29 (Spec): in general mode, of two candidate invoices with the same
\* created_at the one with the smaller id is paid first.
C29_TieBrokenById ==
  [][(/\ last'.op \in EntryPoints /\ last'.sale_ids = <<>>
      /\ last'.status = 200)
     => \A i, j \in 1..Len(last'.updated_sales) :
          (/\ i < j
           /\ sales[last'.updated_sales[i].sale_id].created_at =
                sales[last'.updated_sales[j].sale_id].created_at)
          => last'.updated_sales[i].sale_id <
               last'.updated_sales[j].sale_id]_vars

====
